---- MODULE Spec2Model ----
(***************************************************************************)
(* The colour helper of tk_color_helper.py (class ColorChart): the         *)
(* colour-blindness simulation, the black/white contrast choice and the    *)
(* click handlers that keep a background and a foreground colour shown     *)
(* under one simulation type.  Strings are TLA+ strings, so that Python's  *)
(* substring tests ("x in s") and f-strings are modelled as they compute.  *)
(***************************************************************************)
EXTENDS Integers, Sequences, FiniteSets, TLC

(* ------------------------------------------------------------------ *)
(* Bounds of the model                                                 *)
(* ------------------------------------------------------------------ *)

\* Number of palette entries (a prefix of PaletteSeq) the handlers are driven with.
NumColors == 5

\* Number of channel levels (a prefix of LevelSeq) the pure functions are applied to.
NumLevels == 6

(* ------------------------------------------------------------------ *)
(* Python string and number formatting                                 *)
(* ------------------------------------------------------------------ *)

\* Python's "sub in text" on two strings.
StrIn(sub, text) ==
    \E i \in 0..(Len(text) - Len(sub)) : SubSeq(text, i + 1, i + Len(sub)) = sub

HexDigits == "0123456789abcdef"

DecDigits == "0123456789"

HexDigit(n) == SubSeq(HexDigits, n + 1, n + 1)

RECURSIVE HexNat(_)
\* format(n, 'x') for n >= 0
HexNat(n) == IF n < 16 THEN HexDigit(n) ELSE HexNat(n \div 16) \o HexDigit(n % 16)

\* Fmt02x with the format 'x': no zero padding.
Fmt02x_nopad(n) == IF n < 0 THEN "-" \o HexNat(-n) ELSE HexNat(n)

\* f'{n:02x}': lowercase hex, zero-padded to width 2 (the sign counts in the width).
Fmt02x(n) ==
    IF n < 0 THEN "-" \o HexNat(-n)
    ELSE IF n < 16 THEN "0" \o HexDigit(n)
    ELSE HexNat(n)

\* f'#{_R:02x}{_G:02x}{_B:02x}'
HexOf(rgb) == "#" \o Fmt02x(rgb[1]) \o Fmt02x(rgb[2]) \o Fmt02x(rgb[3])

RECURSIVE DecNat(_)
DecNat(n) ==
    IF n < 10 THEN SubSeq(DecDigits, n + 1, n + 1)
    ELSE DecNat(n \div 10) \o SubSeq(DecDigits, (n % 10) + 1, (n % 10) + 1)

\* str(n) of an int
DecStr(n) == IF n < 0 THEN "-" \o DecNat(-n) ELSE DecNat(n)

\* f'{rgb}' of a 3-tuple of ints: "(r, g, b)"
TupleStr(rgb) == "(" \o DecStr(rgb[1]) \o ", " \o DecStr(rgb[2]) \o ", " \o DecStr(rgb[3]) \o ")"

(* ------------------------------------------------------------------ *)
(* Rounding                                                            *)
(* ------------------------------------------------------------------ *)

\* round(x) of Python 3 for the exact value x = (T * 10^4 + l) / (E * 10^4),
\* 0 <= l < 10^4: the nearest integer, an exact half going to the even one.
\* (Numerators are kept split at 10^4 so that every product fits 32 bits.)
RoundSplit(T, l, E) ==
    LET q   == T \div E
        rem == (T % E) * 10000 + l
        half == (E \div 2) * 10000
    IN  IF rem > half THEN q + 1
        ELSE IF rem = half /\ q % 2 = 1 THEN q + 1
        ELSE q

\* RoundDot with int() in the place of round(): the fraction is dropped.
RoundDot_trunc(c, x, E) ==
    LET H == (c[1] \div 10000) * x[1] + (c[2] \div 10000) * x[2]
             + (c[3] \div 10000) * x[3]
        L == (c[1] % 10000) * x[1] + (c[2] % 10000) * x[2]
             + (c[3] % 10000) * x[3]
    IN  (H + (L \div 10000)) \div E

\* round(c[1]*x[1] + c[2]*x[2] + c[3]*x[3]) where the float coefficients are
\* c[i] / (E * 10^4).  The double-precision sum is within 1e-12 of the
\* exact one, and for channels in 0..255 no row of the three matrices comes
\* closer than 4e-4 to a half, so the exact rounding is the float one.
RoundDot(c, x, E) ==
    LET H == (c[1] \div 10000) * x[1] + (c[2] \div 10000) * x[2]
             + (c[3] \div 10000) * x[3]
        L == (c[1] % 10000) * x[1] + (c[2] % 10000) * x[2]
             + (c[3] % 10000) * x[3]
    IN  RoundSplit(H + (L \div 10000), L % 10000, E)

\* clip without the clamp.
clip_none(c) == c

\* def clip(_c): return max(min(255, _c), 0)
clip(c) ==
    LET m == IF c < 255 THEN c ELSE 255
    IN  IF m > 0 THEN m ELSE 0

(* ------------------------------------------------------------------ *)
(* The simulation transform of simulate_color                          *)
(* ------------------------------------------------------------------ *)

\* Rows of the T matrices, scaled by 10^8 (deuteranopia), 10^9 (protanopia)
\* and 10^7 (tritanopia).
DeutR == <<33066007, 66933993, 0>>
DeutG == <<33066007, 66933993, 0>>
DeutB == <<-2785538, 2785538, 100000000>>
ProtR == <<170556992, 829443014, 0>>
ProtG == <<170556991, 829443008, 0>>
ProtB == <<-4517144, 4517144, 1000000000>>
TritR == <<10000000, 1273989, -1273989>>
TritG == <<0, 8739093, 1260907>>
TritB == <<0, 8739093, 1260907>>

\* (.2126 * _r) + (.7152 * _g) + (.0722 * _b), times 10^4, exactly.
GrayWeights == <<2126, 7152, 722>>

\* The inputs (packed r*65536 + g*256 + b) whose exact luminance is a half but
\* whose double-precision sum is not, and rounds to the other neighbour than
\* the half-to-even rule applied to the exact value gives.
GrayOffTie ==
    {
      3660, 17420, 90533, 104293, 149006, 176966, 177406, 190726,
      191166, 235879, 249639, 294792, 322312, 381225, 381665, 412178,
      412618, 426378, 454338, 471531, 499051, 571724, 585484, 585924,
      616877, 630637, 644397, 675350, 689550, 717070, 806936, 821136,
      849096, 924762, 938522, 973362, 997435, 1039155, 1070548, 1098068,
      1111828, 1129461, 1156981, 1243414, 1243854, 1274807, 1302767, 1347480,
      1375440, 1392193, 1392633, 1433913, 1465306, 1492826, 1506586, 1537539,
      1537979, 1551739, 1610652, 1638172, 1655365, 1669565, 1697525, 1786951,
      1800711, 1814911, 1828671, 1860064, 1887584, 1918537, 1991210, 2005410,
      2063883, 2091843, 2092283, 2195469, 2195909, 2268582, 2282342, 2385968,
      2386408, 2486601, 2576467, 2590227, 2590667, 2635380, 2677100, 2721813,
      2780726, 2781166, 2867599, 2881359, 2912312, 2940272, 2971225, 3012945,
      3015938, 3058098, 3071858, 3116571, 3117011, 3262357, 3307070, 3307510,
      3335030, 3407703, 3584002, 3642915, 3701828, 3716028, 3729788, 3760741,
      3788701, 3805454, 3833414, 3978760, 4023913, 4037673, 4038113, 4110786,
      4124546, 4155499, 4183459, 4300845, 4345998, 4373518, 4477584, 4491344,
      4505104, 4512424, 4519304, 4578217, 4637130, 4681843, 4719676, 4754516,
      4768276, 4782476, 4858142, 4886102, 4959215, 4972975, 5031888, 5062401,
      5076601, 5163034, 5177234, 5246020, 5267100, 5326013, 5353973, 5367733,
      5426206, 5426646, 5450279, 5457159, 5485119, 5516072, 5557792, 5558232,
      5602945, 5630905, 5661858, 5748731, 5762051, 5793444, 5820964, 5845037,
      5851917, 5893637, 5910830, 5952550, 5952990, 5997703, 6025663, 6042416,
      6215722, 6226035, 6246675, 6260875, 6274635, 6288395, 6305588, 6333548,
      6420421, 6430294, 6451374, 6479334, 6496087, 6524047, 6552007, 6610480,
      6669393, 6683153, 6728306, 6773019, 6814739, 6815179, 6825052, 6831932,
      6846132, 6874092, 6890845, 6904605, 6946765, 6991478, 7036631, 7064151,
      7123064, 7167777, 7195737, 7203057, 7219810, 7227130, 7240890, 7268850,
      7358276, 7372036, 7372476, 7386236, 7410309, 7458909, 7476102, 7562535,
      7562975, 7635208, 7663168, 7663608, 7766794, 7805067, 7811947, 7839907,
      7853667, 7898380, 7957733, 8044166, 8057926, 8058366, 8147792, 8161552,
      8199825, 8213585, 8248425, 8293138, 8293578, 8424724, 8452684, 8483637,
      8511597, 8542550, 8584270, 8643183, 8688336, 8746809, 8785082, 8819482,
      8878395, 8906355, 8916228, 8937308, 8965268, 8982021, 9024181, 9083094,
      9179840, 9214240, 9287353, 9301113, 9310986, 9332066, 9360026, 9432699,
      9484292, 9550085, 9595238, 9608998, 9682111, 9726824, 9754784, 9813697,
      9896243, 9944843, 9968916, 10048909, 10076869, 10107822, 10149542, 10159855,
      10173615, 10201135, 10208455, 10297881, 10312081, 10325841, 10339601, 10353801,
      10443667, 10495260, 10537420, 10544300, 10603213, 10685759, 10720599, 10793712,
      10838425, 10897338, 10924858, 10939058, 10948931, 10963131, 10997531, 10997971,
      11028484, 11115357, 11202230, 11319616, 11333816, 11392289, 11423242, 11437442,
      11464962, 11475275, 11489035, 11583228, 11596988, 11665774, 11745327, 11787047,
      11818000, 11832200, 11845960, 11859720, 11904873, 11918633, 11928946, 11991306,
      12008939, 12050659, 12123332, 12174925, 12181805, 12240718, 12254478, 12285871,
      12299631, 12386064, 12445417, 12455290, 12534843, 12576563, 12635476, 12659549,
      12694389, 12739102, 12798455, 12839735, 12840175, 12988514, 13016474, 13030234,
      13089147, 13234933, 13324359, 13383272, 13390152, 13411232, 13435305, 13449065,
      13462825, 13615491, 13629691, 13660204, 13688164, 13719117, 13760837, 13805990,
      13864903, 13892863, 14010249, 14082922, 14128075, 14155595, 14179668, 14259661,
      14390807, 14470800, 14477680, 14508633, 14522833, 14536593, 14574426, 14609266,
      14647099, 14771805, 14785565, 14865558, 14872438, 14931351, 14976504, 15004024,
      15048737, 15121410, 15145483, 15225476, 15252996, 15260316, 15267196, 15284389,
      15326109, 15350182, 15385022, 15409095, 15474448, 15502408, 15516168, 15530368,
      15561321, 15707107, 15779780, 15862326, 15910926, 15956079, 16073905, 16101865,
      16139698, 16174098, 16174538, 16233011, 16305684, 16306124, 16350837, 16378797,
      16468663, 16496623, 16568856, 16569296, 16599809, 16665602, 16745595, 16773555
    }

\* GrayY with int() alone: the fraction is dropped.
GrayY_trunc(rgb) ==
    (GrayWeights[1] * rgb[1] + GrayWeights[2] * rgb[2] + GrayWeights[3] * rgb[3]) \div 10000

\* GrayY with two digits of the green weight swapped (.7512): the weights
\* no longer sum to 1.
GrayY_weights(rgb) ==
    RoundSplit(2126 * rgb[1] + 7512 * rgb[2] + 722 * rgb[3], 0, 10000)

\* int(round((.2126 * _r) + (.7152 * _g) + (.0722 * _b), 0))
GrayY(rgb) ==
    LET n  == GrayWeights[1] * rgb[1] + GrayWeights[2] * rgb[2] + GrayWeights[3] * rgb[3]
        q  == n \div 10000
        he == RoundSplit(n, 0, 10000)
        key == rgb[1] * 65536 + rgb[2] * 256 + rgb[3]
    IN  IF key \in GrayOffTie THEN (IF he = q THEN q + 1 ELSE q) ELSE he

SimTypes == {"deuteranopia", "protanopia", "tritanopia", "grayscale", "nosim"}

\* if sim_type == 'deuteranopia': _R, _G, _B = ...
SimDeuteranopia(rgb) ==
    << clip(RoundDot(DeutR, rgb, 10000)),
       clip(RoundDot(DeutG, rgb, 10000)),
       clip(RoundDot(DeutB, rgb, 10000)) >>

\* elif sim_type == 'protanopia': _R, _G, _B = ...
SimProtanopia(rgb) ==
    << clip(RoundDot(ProtR, rgb, 100000)),
       clip(RoundDot(ProtG, rgb, 100000)),
       clip(RoundDot(ProtB, rgb, 100000)) >>

\* elif sim_type == 'tritanopia': _R, _G, _B = ...
SimTritanopia(rgb) ==
    << clip(RoundDot(TritR, rgb, 1000)),
       clip(RoundDot(TritG, rgb, 1000)),
       clip(RoundDot(TritB, rgb, 1000)) >>

\* elif sim_type == 'grayscale': _R = _G = _B = ...
SimGrayscale(rgb) == << GrayY(rgb), GrayY(rgb), GrayY(rgb) >>

\* The 'nosim' branch never taken: _R, _G, _B keep their initial 0.
SimNosim_skipped(rgb) == <<0, 0, 0>>

\* elif sim_type == 'nosim': _R = _r; _G = _g; _B = _b
SimNosim(rgb) == << rgb[1], rgb[2], rgb[3] >>

\* simulate_color, the computation of sim_rgb = (_R, _G, _B) from rgb and
\* sim_type; with no branch taken _R, _G, _B keep their initial 0.
SimRGB(rgb, sim_type) ==
    CASE sim_type = "deuteranopia" -> SimDeuteranopia(rgb)
      [] sim_type = "protanopia" -> SimProtanopia(rgb)
      [] sim_type = "tritanopia" -> SimTritanopia(rgb)
      [] sim_type = "grayscale" -> SimGrayscale(rgb)
      [] sim_type = "nosim" -> SimNosim(rgb)
      [] OTHER -> <<0, 0, 0>>

\* The cutoff of perceived brightness in "if _pb > 138".
Cutoff == 138

\* black_or_white with "_pb >= 138".
black_or_white_ge(rgb) ==
    IF 241 * rgb[1] * rgb[1] + 691 * rgb[2] * rgb[2] + 68 * rgb[3] * rgb[3]
         >= Cutoff * Cutoff * 1000
    THEN "black"
    ELSE "white"

\* black_or_white: _pb = ((.241 * _R ** 2) + (.691 * _G ** 2) + (.068 * _B ** 2)) ** 0.5
\* and _pb > 138, with both sides squared and scaled by 1000 (the float test and
\* the integer one agree on every rgb with channels in 0..255).
black_or_white(rgb) ==
    IF 241 * rgb[1] * rgb[1] + 691 * rgb[2] * rgb[2] + 68 * rgb[3] * rgb[3]
         > Cutoff * Cutoff * 1000
    THEN "black"
    ELSE "white"

\* The number of cells of the table (columns * rows).
NumCells == 2

\* The number of single clicks followed.
MaxClicks == 3

(* ------------------------------------------------------------------ *)
(* The state of ColorChart                                             *)
(* ------------------------------------------------------------------ *)

VARIABLES
    bg_text,    \* self.bg_text (StringVar)
    fg_text,    \* self.fg_text (StringVar)
    bg_hex,     \* self.bg_hex (StringVar), never set after construction
    fg_color,   \* self.fg_color (StringVar)
    fg_hex,     \* self.fg_hex (StringVar)
    fg_rgb,     \* self.fg_rgb, a tuple
    sim_type,   \* self.sim_type (StringVar)
    bg_info,    \* the bg and fg options of the Entry self.bg_info
    fg_info,    \* the bg and fg options of the Entry self.fg_info
    exc,        \* the exception the last handler ended with, "" for none
    calls,      \* the methods the last handler ran, in call order
    last,       \* the last event handled: the bound lambda's arguments
    last_bg,    \* the arguments of the last Button-1 click (any modifier)
    last_fg,    \* the arguments of the last right-click
    fn_in,      \* (color, rgb, sim_type) of a direct call of simulate_color
    fn_out      \* the (sim_hex, sim_rgb) that call returned, << >> before it

VARIABLES
    fn_again,   \* what simulate_color returned when applied to fn_out's sim_rgb
    bw_out      \* what black_or_white returned for fn_in's rgb, "" before the call

\* The variables of the direct calls beyond fn_in and fn_out.
simAux == << fn_again, bw_out >>

InitSimAux ==
    /\ fn_again = << >>
    /\ bw_out = ""

VARIABLES
    winfo_ch,   \* one 16-bit channel value of label.winfo_rgb(color_name)
    rgb_ch      \* the channel of the rgb tuple bound to the handlers, -1 before

shiftAux == << winfo_ch, rgb_ch >>

InitShiftAux ==
    /\ winfo_ch = 0
    /\ rgb_ch = -1

\* The state of WidgetTable (tk_widget_table.py).
VARIABLES
    default_bg,         \* self.default_bg, which is also self.label_fg2
    cells,              \* the bg and fg options of each Label of the table
    double_click_flag,  \* self.double_click_flag
    timers,             \* the pending after(300, click_control, cell) callbacks,
                        \* oldest first; dbl: a <Double-1> came while pending
    hover,              \* the cell under the pointer, 0 for none
    press,              \* the cell of the last button-1 press a <Double-1> can
                        \* follow, 0 for none
    tlast,              \* the last handler or callback that ran, and its cell;
                        \* for shift_click also the cell's fg before it, and
                        \* whether the event before was a shift-click on the cell
    gesture,            \* the press that began a double-click: the cell and its
                        \* options at that press, and how far the gesture got
    n_sched,            \* how many callbacks single_click has scheduled
    n_fired,            \* how many of them have run
    n_done              \* per cell: the single clicks completed since it was
                        \* uncoloured; -1 once the click_control of a click that a
                        \* <Double-1> event followed has run for it since then

tableAux == << default_bg, cells, double_click_flag, timers, hover, press, tlast,
               gesture, n_sched, n_fired, n_done >>

\* The layout loop of ColorChart.make_colortable.
VARIABLES
    _col,       \* the loop's _col
    _row,       \* the loop's _row
    placed,     \* the (row, column) each Label was gridded at, in loop order
    info_width  \* self.info_width, -1 before make_colortable sets it

layoutAux == << _col, _row, placed, info_width >>

\* The MVC template (tk-mvc-template.py).
VARIABLES
    entry,      \* the text of share.tkdata['entry'], which the Entry widget edits
    result,     \* the value of share.tkdata['result']
    mvc_exc,    \* the exception the last run of doubleit ended with, "" for none
    mvc_last    \* the last event: an edit of the entry or a run of doubleit,
                \* and for a run whether the event before was a run too

mvcAux == << entry, result, mvc_exc, mvc_last >>

\* The state of the variables that the programs modelled further below add.
extAux == << layoutAux, mvcAux >>

\* Everything that is not a field of ColorChart nor an argument of its handlers.
aux == << simAux, shiftAux, tableAux, extAux >>

vars == << bg_text, fg_text, bg_hex, fg_color, fg_hex, fg_rgb, sim_type,
           bg_info, fg_info, exc, calls, last, last_bg, last_fg, fn_in, fn_out,
           aux >>

\* Python's None, where a string is expected.
None == "None"

\* The value of last, last_bg and last_fg before any such event.
NoEvent == [op |-> "none"]

\* Startup text for the two Entry widgets (config_master).
BgStartText == "Background color name, hex code, and RGB values are displayed here."

FgStartText == "Foreground color name, hex code, and RGB values are displayed here."

\* The named colours of the table with their 8-bit RGB (x >> 8 of winfo_rgb).
PaletteSeq ==
    << [name |-> "white",  rgb |-> <<255, 255, 255>>],
       [name |-> "black",  rgb |-> <<0, 0, 0>>],
       [name |-> "red",    rgb |-> <<255, 0, 0>>],
       [name |-> "blue",   rgb |-> <<0, 0, 255>>],
       [name |-> "yellow", rgb |-> <<255, 255, 0>>],
       [name |-> "gray51", rgb |-> <<130, 130, 130>>],
       [name |-> "navy",   rgb |-> <<0, 0, 128>>] >>

Palette == { PaletteSeq[i] : i \in 1..NumColors }

\* Channel values the simulation is applied to directly.
LevelSeq == << 0, 255, 14, 76, 128, 138, 200, 1 >>

Levels == { LevelSeq[i] : i \in 1..NumLevels }

\* WidgetTable.__init__: the widgets' colours.
frame_bg == "khaki3"
label_bg1 == "blue2"
label_bg2 == "goldenrod"
label_fg1 == "MediumPurple2"
label_fg2 == default_bg

\* The background Tk gives a Label created without a bg option.
TkDefaultBg == "#d9d9d9"

Cells == 1..NumCells

NoGesture == [phase |-> "none"]

\* The table as draw_table leaves it, before any event.
TableDrawn ==
    /\ cells = [c \in Cells |-> [bg |-> TkDefaultBg, fg |-> label_fg1]]
    /\ double_click_flag = FALSE
    /\ timers = << >>
    /\ hover = 0
    /\ press = 0
    /\ tlast = NoEvent
    /\ gesture = NoGesture
    /\ n_sched = 0
    /\ n_fired = 0
    /\ n_done = [c \in Cells |-> 0]

InitTableAux ==
    /\ default_bg = "gray86"
    /\ TableDrawn

\* make_colortable's locals before its loop starts.
InitLayoutAux ==
    /\ _col = 0
    /\ _row = 2
    /\ placed = << >>
    /\ info_width = -1

\* GuiViewer.configure_widgets: result.set(0), entry.set(4)
InitMvcAux ==
    /\ entry = "4"
    /\ result = 0
    /\ mvc_exc = ""
    /\ mvc_last = NoEvent

InitExtAux == InitLayoutAux /\ InitMvcAux

InitAux == InitSimAux /\ InitShiftAux /\ InitTableAux /\ InitExtAux

\* The object's fields as one record, the form the methods below work on.
State ==
    [ bg_text |-> bg_text, fg_text |-> fg_text, bg_hex |-> bg_hex,
      fg_color |-> fg_color, fg_hex |-> fg_hex, fg_rgb |-> fg_rgb,
      sim_type |-> sim_type, bg_info |-> bg_info, fg_info |-> fg_info,
      exc |-> "", calls |-> << >> ]

SetState(s) ==
    /\ bg_text' = s.bg_text
    /\ fg_text' = s.fg_text
    /\ bg_hex' = s.bg_hex
    /\ fg_color' = s.fg_color
    /\ fg_hex' = s.fg_hex
    /\ fg_rgb' = s.fg_rgb
    /\ sim_type' = s.sim_type
    /\ bg_info' = s.bg_info
    /\ fg_info' = s.fg_info
    /\ exc' = s.exc
    /\ calls' = s.calls

(* ------------------------------------------------------------------ *)
(* The methods                                                         *)
(* ------------------------------------------------------------------ *)

\* A method's outcome: the object's state after it and what it returned.
\* When st.exc is not "", the method raised and ret is meaningless.
Outcome(s, r) == [st |-> s, ret |-> r]

RECURSIVE simulate_color(_, _, _, _, _)

\* IsDefaultFg that lets every background click recompute the foreground.
IsDefaultFg_always(prior_fg) == TRUE

\* prior_fg in 'black, white': the foreground is still the black or white
\* default (a substring test, so the empty start value passes too).
IsDefaultFg(prior_fg) == StrIn(prior_fg, "black, white")

\* SimsMatch that always sees a mismatch.
SimsMatch_never(bg_text_, fg_text_) == FALSE

\* SimsMatch that never sees a mismatch.
SimsMatch_always(bg_text_, fg_text_) == TRUE

\* The match flag of sync_simtypes: both texts name one simulation type, or
\* neither holds 'sees'.
SimsMatch(bg_text_, fg_text_) ==
    \/ \E sim \in SimTypes : StrIn(sim, bg_text_) /\ StrIn(sim, fg_text_)
    \/ (~StrIn("sees", bg_text_) /\ ~StrIn("sees", fg_text_))

\* sync_simtypes without the default of self.fg_rgb for a black or white fg_hex.
sync_simtypes_nodefault(s0) ==
    LET s1 == [s0 EXCEPT !.calls = Append(@, "sync_simtypes")]
        color == s1.fg_color
        s2 == s1
        match == SimsMatch(s2.bg_text, s2.fg_text)
        r == simulate_color(s2, color, s2.fg_rgb, s2.sim_type, "yes")
        sim_hex == r.ret[1]
        sim_rgb == r.ret[2]
        text == IF s2.sim_type = "nosim"
                THEN "fg='" \o color \o "' or fg='" \o sim_hex \o "'; RGB " \o TupleStr(sim_rgb)
                ELSE s2.sim_type \o " sees '" \o color \o "' as fg='" \o sim_hex
                     \o "'; RGB " \o TupleStr(sim_rgb)
    IN  IF match THEN s2
        ELSE IF r.st.exc # "" THEN r.st
        ELSE [r.st EXCEPT !.fg_text = text,
                          !.bg_info.fg = sim_hex,
                          !.fg_info.fg = sim_hex]

\* sync_simtypes(self)
sync_simtypes(s0) ==
    LET s1 == [s0 EXCEPT !.calls = Append(@, "sync_simtypes")]
        color == s1.fg_color
        \* if fg_hex == 'black': ... elif fg_hex == 'white': ...
        s2 == IF s1.fg_hex = "black" THEN [s1 EXCEPT !.fg_rgb = <<0, 0, 0>>]
              ELSE IF s1.fg_hex = "white" THEN [s1 EXCEPT !.fg_rgb = <<255, 255, 255>>]
              ELSE s1
        match == SimsMatch(s2.bg_text, s2.fg_text)
        r == simulate_color(s2, color, s2.fg_rgb, s2.sim_type, "yes")
        sim_hex == r.ret[1]
        sim_rgb == r.ret[2]
        text == IF s2.sim_type = "nosim"
                THEN "fg='" \o color \o "' or fg='" \o sim_hex \o "'; RGB " \o TupleStr(sim_rgb)
                ELSE s2.sim_type \o " sees '" \o color \o "' as fg='" \o sim_hex
                     \o "'; RGB " \o TupleStr(sim_rgb)
    IN  IF match THEN s2
        ELSE IF r.st.exc # "" THEN r.st
        ELSE [r.st EXCEPT !.fg_text = text,
                          !.bg_info.fg = sim_hex,
                          !.fg_info.fg = sim_hex]

\* display_colors with the two configure() calls made in the 'nosim' branch only.
display_colors_nobg(s0, color, rgb, st) ==
    LET hex == HexOf(rgb)
        s1 == [s0 EXCEPT !.calls = Append(@, "display_colors"), !.sim_type = st]
        text == IF st = "nosim"
                THEN "bg='" \o color \o "' or bg='" \o hex \o "'; RGB " \o TupleStr(rgb)
                ELSE st \o " sees '" \o color \o "' as bg='" \o hex
                     \o "'; RGB " \o TupleStr(rgb)
        s2 == IF st = "nosim"
              THEN [s1 EXCEPT !.bg_text = text,
                              !.bg_info = [bg |-> hex, fg |-> s1.fg_hex],
                              !.fg_info = [bg |-> hex, fg |-> s1.fg_hex]]
              ELSE [s1 EXCEPT !.bg_text = text]
    IN  sync_simtypes(s2)

\* display_colors(self, color, rgb, sim_type)
display_colors(s0, color, rgb, st) ==
    LET hex == HexOf(rgb)
        s1 == [s0 EXCEPT !.calls = Append(@, "display_colors"), !.sim_type = st]
        text == IF st = "nosim"
                THEN "bg='" \o color \o "' or bg='" \o hex \o "'; RGB " \o TupleStr(rgb)
                ELSE st \o " sees '" \o color \o "' as bg='" \o hex
                     \o "'; RGB " \o TupleStr(rgb)
        s2 == [s1 EXCEPT !.bg_text = text,
                         !.bg_info = [bg |-> hex, fg |-> s1.fg_hex],
                         !.fg_info = [bg |-> hex, fg |-> s1.fg_hex]]
    IN  sync_simtypes(s2)

\* FromButton1 that also holds for the nested call made by sync_simtypes
\* (while the chain of calls is short, so that the evaluation ends).
FromButton1_nested(s, fg_do) == fg_do = None \/ Len(s.calls) <= 4

\* "fg_do is None": the call comes from a Button-1 binding, and not from
\* sync_simtypes or foregrnd_info, which pass fg_do='yes'.
FromButton1(s, fg_do) == fg_do = None

\* simulate_color(self, color, rgb, sim_type, fg_do=None) -> (sim_hex, sim_rgb)
simulate_color(s0, color, rgb, st, fg_do) ==
    LET s1 == [s0 EXCEPT !.calls = Append(@, "simulate_color"), !.sim_type = st]
        sim_rgb == SimRGB(rgb, st)
        sim_hex == HexOf(sim_rgb)
        prior_fg == s1.fg_hex
        bw == black_or_white(sim_rgb)
        \* the two branches of a Button-1 call, each ending in display_colors
        s2 == IF st = "nosim" /\ FromButton1(s1, fg_do)
              THEN display_colors(
                     [s1 EXCEPT !.fg_hex = IF ~IsDefaultFg(prior_fg)
                                           THEN prior_fg ELSE bw],
                     color, sim_rgb, st)
              ELSE IF st # "nosim" /\ FromButton1(s1, fg_do)
              THEN display_colors(
                     IF IsDefaultFg(prior_fg)
                     THEN [s1 EXCEPT !.fg_hex = bw, !.fg_color = bw]
                     ELSE s1,
                     color, sim_rgb, st)
              ELSE s1
        s3 == IF s2.exc = "" /\ fg_do = "yes" THEN [s2 EXCEPT !.fg_hex = sim_hex] ELSE s2
    IN  IF Len(rgb) # 3
        THEN \* "_r, _g, _b = rgb" raises ValueError
             Outcome([s1 EXCEPT !.exc = "ValueError"], None)
        ELSE Outcome(s3, <<sim_hex, sim_rgb>>)

\* FgSimType with a fixed simulation type of the foreground's own.
FgSimType_own(s) == "deuteranopia"

\* sim_type = self.sim_type.get() in foregrnd_info
FgSimType(s) == s.sim_type

\* foregrnd_info without "self.fg_rgb = rgb".
foregrnd_info_norgb(s0, color, rgb) ==
    LET hex == HexOf(rgb)
        st == FgSimType(s0)
        s1 == [s0 EXCEPT !.calls = Append(@, "foregrnd_info"),
                         !.fg_color = color]
        r == simulate_color(s1, color, rgb, st, "yes")
        sim_hex == r.ret[1]
        sim_rgb == r.ret[2]
    IN  IF st = "nosim"
        THEN [s1 EXCEPT !.fg_hex = hex,
                        !.fg_text = "fg='" \o color \o "' or fg='" \o hex
                                    \o "'; RGB " \o TupleStr(rgb),
                        !.bg_info.fg = hex,
                        !.fg_info.fg = hex]
        ELSE IF r.st.exc # "" THEN r.st
        ELSE [r.st EXCEPT !.fg_text = st \o " sees '" \o color \o "' as fg='" \o sim_hex
                                      \o "'; RGB " \o TupleStr(sim_rgb),
                          !.bg_info.fg = sim_hex,
                          !.fg_info.fg = sim_hex]

\* foregrnd_info(self, color, rgb)
foregrnd_info(s0, color, rgb) ==
    LET hex == HexOf(rgb)
        st == FgSimType(s0)
        s1 == [s0 EXCEPT !.calls = Append(@, "foregrnd_info"),
                         !.fg_color = color,
                         !.fg_rgb = rgb]
        r == simulate_color(s1, color, rgb, st, "yes")
        sim_hex == r.ret[1]
        sim_rgb == r.ret[2]
    IN  IF st = "nosim"
        THEN [s1 EXCEPT !.fg_hex = hex,
                        !.fg_text = "fg='" \o color \o "' or fg='" \o hex
                                    \o "'; RGB " \o TupleStr(rgb),
                        !.bg_info.fg = hex,
                        !.fg_info.fg = hex]
        ELSE IF r.st.exc # "" THEN r.st
        ELSE [r.st EXCEPT !.fg_text = st \o " sees '" \o color \o "' as fg='" \o sim_hex
                                      \o "'; RGB " \o TupleStr(sim_rgb),
                          !.bg_info.fg = sim_hex,
                          !.fg_info.fg = sim_hex]

(* ------------------------------------------------------------------ *)
(* The program: construction, then one action per bound event          *)
(* ------------------------------------------------------------------ *)

\* __init__ and config_master.
InitChart ==
    /\ bg_text = BgStartText
    /\ fg_text = FgStartText
    /\ bg_hex = ""
    /\ fg_color = ""
    /\ fg_hex = ""
    /\ fg_rgb = << "None" >>
    /\ sim_type = "nosim"
    /\ bg_info = [bg |-> "gray90", fg |-> ""]
    /\ fg_info = [bg |-> "gray90", fg |-> ""]
    /\ exc = ""
    /\ calls = << >>
    /\ last = NoEvent
    /\ last_bg = NoEvent
    /\ last_fg = NoEvent

Init ==
    /\ InitChart
    /\ fn_in = << >>
    /\ fn_out = << >>
    /\ InitAux

\* <Button-1>, <Shift-Button-1>, <Control-Button-1>, <Shift-Control-Button-1>,
\* <Alt-Button-1>: lambda _, c=color_name, r_b=rgb: self.simulate_color(c, r_b, st)
Button1 ==
    \E c \in Palette, st \in SimTypes :
        /\ SetState(simulate_color(State, c.name, c.rgb, st, None).st)
        /\ last' = [op |-> "simulate_color", color |-> c.name, rgb |-> c.rgb, sim_type |-> st]
        /\ last_bg' = last'
        /\ UNCHANGED << last_fg, fn_in, fn_out, aux >>

\* <Button-3> (<Button-2> on macOS): lambda _, c=color_name, ...: self.foregrnd_info(c, r_b)
Button3 ==
    \E c \in Palette :
        /\ SetState(foregrnd_info(State, c.name, c.rgb))
        /\ last' = [op |-> "foregrnd_info", color |-> c.name, rgb |-> c.rgb]
        /\ last_fg' = last'
        /\ UNCHANGED << last_bg, fn_in, fn_out, aux >>

Next == Button1 \/ Button3

Spec == Init /\ [][Next]_vars

(* ------------------------------------------------------------------ *)
(* simulate_color applied as a function, on a freshly built ColorChart *)
(* ------------------------------------------------------------------ *)

InitSim ==
    /\ InitChart
    /\ fn_in \in {"red"} \X (Levels \X Levels \X Levels) \X SimTypes
    /\ fn_out = << >>
    /\ InitAux

\* sim_hex, sim_rgb = self.simulate_color(color, rgb, sim_type, 'yes')
CallSimulate ==
    /\ fn_out = << >>
    /\ LET r == simulate_color(State, fn_in[1], fn_in[2], fn_in[3], "yes")
       IN  /\ SetState(r.st)
           /\ fn_out' = r.ret
    /\ UNCHANGED << last, last_bg, last_fg, fn_in, aux >>

\* self.simulate_color(color, sim_rgb, sim_type, 'yes') on the sim_rgb just returned
CallSimulateAgain ==
    /\ fn_out # << >>
    /\ fn_again = << >>
    /\ LET r == simulate_color(State, fn_in[1], fn_out[2], fn_in[3], "yes")
       IN  /\ SetState(r.st)
           /\ fn_again' = r.ret
    /\ UNCHANGED << last, last_bg, last_fg, fn_in, fn_out, bw_out, shiftAux, tableAux, extAux >>

\* self.black_or_white(rgb)
CallBlackOrWhite ==
    /\ bw_out = ""
    /\ bw_out' = black_or_white(fn_in[2])
    /\ UNCHANGED << bg_text, fg_text, bg_hex, fg_color, fg_hex, fg_rgb, sim_type,
                    bg_info, fg_info, exc, calls, last, last_bg, last_fg,
                    fn_in, fn_out, fn_again, shiftAux, tableAux, extAux >>

NextSim == CallSimulate \/ CallSimulateAgain \/ CallBlackOrWhite

SpecSim == InitSim /\ [][NextSim]_vars

(* ------------------------------------------------------------------ *)
(* make_colortable's channel conversion, for every value winfo_rgb gives *)
(* ------------------------------------------------------------------ *)

RECURSIVE Shr(_, _)

\* A shift that rounds to the nearest multiple instead of dropping the low bits.
Shr_nearest(x, n) == IF n = 0 THEN x ELSE (x + 2 ^ (n - 1)) \div 2 ^ n

\* x >> n on a Python int: n times, drop the lowest bit.
Shr(x, n) == IF n = 0 THEN x ELSE Shr(x \div 2, n - 1)

InitShift ==
    /\ InitChart
    /\ fn_in = << >>
    /\ fn_out = << >>
    /\ InitSimAux
    /\ InitTableAux
    /\ InitExtAux
    /\ winfo_ch \in 0..65535
    /\ rgb_ch = -1

\* _R, _G, _B = [x >> 8 for x in label.winfo_rgb(color_name)], one channel
MakeChannel ==
    /\ rgb_ch = -1
    /\ rgb_ch' = Shr(winfo_ch, 8)
    /\ UNCHANGED << bg_text, fg_text, bg_hex, fg_color, fg_hex, fg_rgb, sim_type,
                    bg_info, fg_info, exc, calls, last, last_bg, last_fg,
                    fn_in, fn_out, simAux, winfo_ch, tableAux, extAux >>

NextShift == MakeChannel

SpecShift == InitShift /\ [][NextShift]_vars

(* ------------------------------------------------------------------ *)
(* WidgetTable: the handlers bound to each Label, and the 300 ms timer *)
(* ------------------------------------------------------------------ *)

\* The variables of ColorChart and of its direct calls, which no handler of
\* WidgetTable touches.
chart == << bg_text, fg_text, bg_hex, fg_color, fg_hex, fg_rgb, sim_type,
            bg_info, fg_info, exc, calls, last, last_bg, last_fg,
            fn_in, fn_out, simAux, shiftAux >>

\* on_enter(self, cell)
on_enter(cell) ==
    IF cell.bg = label_bg1 THEN [cell EXCEPT !.bg = label_bg1]
    ELSE IF cell.bg = label_bg2 THEN [cell EXCEPT !.bg = label_bg2]
    ELSE [cell EXCEPT !.bg = frame_bg]

\* on_leave that keeps the mouse-over colour.
on_leave_keep(cell) == cell

\* on_leave(self, cell)
on_leave(cell) ==
    LET entered_color == cell.bg
    IN  IF cell.bg = frame_bg THEN [cell EXCEPT !.bg = default_bg]
        ELSE [cell EXCEPT !.bg = entered_color]

\* click_control whose single-click branch always colours with label_bg1.
click_control_bg1(cell, flag) ==
    IF flag
    THEN [cell |-> IF cell.fg = label_fg1 THEN [cell EXCEPT !.fg = label_fg2]
                   ELSE [cell EXCEPT !.fg = label_fg1],
          flag |-> FALSE]
    ELSE [cell |-> [cell EXCEPT !.bg = label_bg1], flag |-> flag]

\* click_control(self, cell): the cell and self.double_click_flag after it.
click_control(cell, flag) ==
    IF flag
    THEN [cell |-> IF cell.fg = label_fg1 THEN [cell EXCEPT !.fg = label_fg2]
                   ELSE [cell EXCEPT !.fg = label_fg1],
          flag |-> FALSE]
    ELSE [cell |-> IF cell.bg = label_bg1 THEN [cell EXCEPT !.bg = label_bg2]
                   ELSE [cell EXCEPT !.bg = label_bg1],
          flag |-> flag]

\* shift_click that only ever sets label_fg2.
shift_click_oneway(cell) == [cell EXCEPT !.fg = label_fg2]

\* shift_click(self, cell)
shift_click(cell) ==
    IF cell.fg = label_fg1 THEN [cell EXCEPT !.fg = label_fg2]
    ELSE [cell EXCEPT !.fg = label_fg1]

\* decolor that removes label_bg1 only.
decolor_bg1(cell) ==
    IF cell.bg = label_bg1 THEN [cell EXCEPT !.bg = default_bg]
    ELSE cell

\* decolor(self, cell)
decolor(cell) ==
    IF cell.bg \in {label_bg1, label_bg2} THEN [cell EXCEPT !.bg = default_bg]
    ELSE cell

\* WidgetTable(15, 10) on either platform: default_bg is 'white' on darwin.
InitTable ==
    /\ InitChart
    /\ fn_in = << >>
    /\ fn_out = << >>
    /\ InitSimAux
    /\ InitShiftAux
    /\ InitExtAux
    /\ default_bg \in {"gray86", "white"}
    /\ TableDrawn

\* <Enter>: the pointer comes over cell c.
OnEnter(c) ==
    /\ hover = 0
    /\ hover' = c
    /\ cells' = [cells EXCEPT ![c] = on_enter(@)]
    /\ press' = 0
    /\ tlast' = [op |-> "on_enter", cell |-> c]
    /\ gesture' = NoGesture
    /\ UNCHANGED << default_bg, double_click_flag, timers, n_sched, n_fired, n_done, chart,
                    extAux >>

\* <Leave>: the pointer leaves cell c.
OnLeave(c) ==
    /\ hover = c
    /\ hover' = 0
    /\ cells' = [cells EXCEPT ![c] = on_leave(@)]
    /\ press' = 0
    /\ tlast' = [op |-> "on_leave", cell |-> c]
    /\ gesture' = NoGesture
    /\ UNCHANGED << default_bg, double_click_flag, timers, n_sched, n_fired, n_done, chart,
                    extAux >>

\* <Button-1>: single_click(cell) clears the flag and schedules click_control.
SingleClick(c) ==
    /\ hover = c
    /\ n_sched < MaxClicks
    /\ double_click_flag' = FALSE
    /\ timers' = Append(timers, [cell |-> c, dbl |-> FALSE])
    /\ n_sched' = n_sched + 1
    /\ press' = c
    /\ tlast' = [op |-> "single_click", cell |-> c]
    /\ gesture' = [phase |-> "pressed", cell |-> c, bg |-> cells[c].bg, fg |-> cells[c].fg]
    /\ UNCHANGED << default_bg, cells, hover, n_fired, n_done, chart,
                    extAux >>

\* <Double-1>: a further press on the cell of the last press, within Tk's
\* double-click time; double_click(cell) sets the flag.
DoubleClick(c) ==
    /\ hover = c
    /\ press = c
    /\ double_click_flag' = TRUE
    /\ timers' = [i \in 1..Len(timers) |-> [timers[i] EXCEPT !.dbl = TRUE]]
    /\ tlast' = [op |-> "double_click", cell |-> c]
    /\ gesture' = IF gesture.phase = "pressed"
                  THEN [gesture EXCEPT !.phase = "double"]
                  ELSE NoGesture
    /\ UNCHANGED << default_bg, cells, hover, press, n_sched, n_fired, n_done, chart,
                    extAux >>

\* <Shift-1>: shift_click(cell)
ShiftClick(c) ==
    /\ hover = c
    /\ cells' = [cells EXCEPT ![c] = shift_click(@)]
    /\ press' = c
    /\ tlast' = [op |-> "shift_click", cell |-> c, fg |-> cells[c].fg,
                 twice |-> (tlast.op = "shift_click" /\ tlast.cell = c)]
    /\ gesture' = NoGesture
    /\ UNCHANGED << default_bg, double_click_flag, timers, hover, n_sched, n_fired,
                    n_done, chart,
                    extAux >>

\* <Button-3> (<Button-2> on darwin): decolor(cell)
Decolor(c) ==
    /\ hover = c
    /\ cells' = [cells EXCEPT ![c] = decolor(@)]
    /\ n_done' = [n_done EXCEPT ![c] = 0]
    /\ press' = 0
    /\ tlast' = [op |-> "decolor", cell |-> c]
    /\ gesture' = NoGesture
    /\ UNCHANGED << default_bg, double_click_flag, timers, hover, n_sched, n_fired, chart,
                    extAux >>

\* The oldest pending timer expires: click_control(cell)
TimerFire ==
    /\ timers # << >>
    /\ LET t == Head(timers)
           r == click_control(cells[t.cell], double_click_flag)
       IN  /\ cells' = [cells EXCEPT ![t.cell] = r.cell]
           /\ double_click_flag' = r.flag
           /\ n_done' = IF t.dbl \/ n_done[t.cell] = -1
                        THEN [n_done EXCEPT ![t.cell] = -1]
                        ELSE [n_done EXCEPT ![t.cell] = @ + 1]
           /\ tlast' = [op |-> "click_control", cell |-> t.cell, dbl |-> t.dbl]
    /\ timers' = Tail(timers)
    /\ n_fired' = n_fired + 1
    /\ UNCHANGED << default_bg, hover, press, gesture, n_sched, chart,
                    extAux >>

NextTable ==
    \/ \E c \in Cells : OnEnter(c)
    \/ \E c \in Cells : OnLeave(c)
    \/ \E c \in Cells : SingleClick(c)
    \/ \E c \in Cells : DoubleClick(c)
    \/ \E c \in Cells : ShiftClick(c)
    \/ \E c \in Cells : Decolor(c)
    \/ TimerFire

SpecTable == InitTable /\ [][NextTable]_vars

\* The event loop runs every timer callback that is due.
SpecTableFair == SpecTable /\ WF_vars(TimerFire)

(* ------------------------------------------------------------------ *)
(* make_colortable: the loop that grids one Label per colour name      *)
(* ------------------------------------------------------------------ *)

\* const.MAX_ROWS
MAX_ROWS == 42

\* len(const.X11_RGB_NAMES)
NumNames == 760

\* ColumnFull that lets a column take one more row.
ColumnFull_gt(r) == r > MAX_ROWS

\* if _row >= const.MAX_ROWS
ColumnFull(r) == r >= MAX_ROWS

InitLayout ==
    /\ InitChart
    /\ fn_in = << >>
    /\ fn_out = << >>
    /\ InitSimAux
    /\ InitShiftAux
    /\ InitTableAux
    /\ InitLayoutAux
    /\ InitMvcAux

\* One pass of "for color_name in const.X11_RGB_NAMES": label.grid(row=_row,
\* column=_col); _row += 1; ...; if _row >= const.MAX_ROWS: _col += 1; _row = 2
PlaceLabel ==
    /\ Len(placed) < NumNames
    /\ placed' = Append(placed, [row |-> _row, col |-> _col])
    /\ IF ColumnFull(_row + 1)
       THEN _col' = _col + 1 /\ _row' = 2
       ELSE _col' = _col /\ _row' = _row + 1
    /\ UNCHANGED << info_width, chart, tableAux, mvcAux >>

\* After the loop: self.info_width = _col
SetInfoWidth ==
    /\ Len(placed) = NumNames
    /\ info_width = -1
    /\ info_width' = _col
    /\ UNCHANGED << _col, _row, placed, chart, tableAux, mvcAux >>

NextLayout == PlaceLabel \/ SetInfoWidth

SpecLayout == InitLayout /\ [][NextLayout]_vars

(* ------------------------------------------------------------------ *)
(* The MVC template: the Entry's text and the "Run DataModeler" button *)
(* ------------------------------------------------------------------ *)

\* The longest text typed into the Entry.
MaxEntryLen == 3

\* The characters typed: a sign, a point, two digits and a letter.
EntryChars == {"-", ".", "4", "9", "a"}

\* One or more decimal digits.
AllDigits(s) == Len(s) > 0 /\ \A i \in 1..Len(s) : StrIn(SubSeq(s, i, i), DecDigits)

RECURSIVE NatOf(_)
\* The number that a string of decimal digits (without a leading zero) writes.
NatOf(s) ==
    IF s = "" THEN 0
    ELSE 10 * NatOf(SubSeq(s, 1, Len(s) - 1))
         + (CHOOSE d \in 0..9 : SubSeq(DecDigits, d + 1, d + 1) = SubSeq(s, Len(s), Len(s)))

\* Where the first point of s is, 0 for none.
PointAt(s) ==
    IF \E i \in 1..Len(s) : SubSeq(s, i, i) = "."
    THEN CHOOSE i \in 1..Len(s) :
            /\ SubSeq(s, i, i) = "."
            /\ \A j \in 1..(i - 1) : SubSeq(s, j, j) # "."
    ELSE 0

\* IntVar.get(): self._tk.getint(value), and when that raises
\* int(self._tk.getdouble(value)), which drops the fraction; ok is FALSE when
\* both raise (TclError).
IntVar_get(value) ==
    LET neg == Len(value) > 0 /\ SubSeq(value, 1, 1) = "-"
        body == IF neg THEN SubSeq(value, 2, Len(value)) ELSE value
        sign == IF neg THEN -1 ELSE 1
        p == PointAt(body)
        whole == SubSeq(body, 1, p - 1)
        frac == SubSeq(body, p + 1, Len(body))
    IN  IF AllDigits(body) THEN [ok |-> TRUE, val |-> sign * NatOf(body)]
        ELSE IF /\ p > 0
                /\ whole = "" \/ AllDigits(whole)
                /\ frac = "" \/ AllDigits(frac)
                /\ whole # "" \/ frac # ""
        THEN [ok |-> TRUE, val |-> sign * NatOf(whole)]
        ELSE [ok |-> FALSE, val |-> 0]

\* Answer that squares.
Answer_square(user_entry) == user_entry * user_entry

\* answer = user_entry * 2
Answer(user_entry) == user_entry * 2

InitMvc ==
    /\ InitChart
    /\ fn_in = << >>
    /\ fn_out = << >>
    /\ InitSimAux
    /\ InitShiftAux
    /\ InitTableAux
    /\ InitLayoutAux
    /\ InitMvcAux

\* A key typed into entry_number, whose textvariable is tkdata['entry'].
TypeChar ==
    \E ch \in EntryChars :
        /\ Len(entry) < MaxEntryLen
        /\ entry' = entry \o ch
        /\ mvc_last' = [op |-> "edit"]
        /\ UNCHANGED << result, mvc_exc, chart, tableAux, layoutAux >>

\* BackSpace in entry_number.
BackSpace ==
    /\ entry # ""
    /\ entry' = SubSeq(entry, 1, Len(entry) - 1)
    /\ mvc_last' = [op |-> "edit"]
    /\ UNCHANGED << result, mvc_exc, chart, tableAux, layoutAux >>

\* button1's command: AppController.doubleit -> DataModeler.double_it
Doubleit ==
    /\ LET got == IntVar_get(entry)
       IN  IF got.ok
           THEN /\ result' = Answer(got.val)
                /\ mvc_exc' = ""
           ELSE /\ result' = result
                /\ mvc_exc' = "TclError"
    /\ mvc_last' = [op |-> "doubleit", again |-> (mvc_last.op = "doubleit")]
    /\ UNCHANGED << entry, chart, tableAux, layoutAux >>

NextMvc == TypeChar \/ BackSpace \/ Doubleit

SpecMvc == InitMvc /\ [][NextMvc]_vars

(* ------------------------------------------------------------------ *)
(* Properties                                                          *)
(* ------------------------------------------------------------------ *)

\* The value of a hex digit character.
HexVal(ch) == CHOOSE i \in 0..15 : HexDigit(i) = ch

\* The colour Tk shows for a foreground option: the names 'black' and 'white',
\* or '#rrggbb'; <<-1, -1, -1>> for anything else.
ColorOf(str) ==
    IF str = "black" THEN <<0, 0, 0>>
    ELSE IF str = "white" THEN <<255, 255, 255>>
    ELSE IF Len(str) = 7 /\ SubSeq(str, 1, 1) = "#"
              /\ \A i \in 2..7 : StrIn(SubSeq(str, i, i), HexDigits)
    THEN << 16 * HexVal(SubSeq(str, 2, 2)) + HexVal(SubSeq(str, 3, 3)),
            16 * HexVal(SubSeq(str, 4, 4)) + HexVal(SubSeq(str, 5, 5)),
            16 * HexVal(SubSeq(str, 6, 6)) + HexVal(SubSeq(str, 7, 7)) >>
    ELSE <<-1, -1, -1>>

\* The simulation type of the last background click, 'nosim' before the first.
ModeShown == IF last_bg = NoEvent THEN "nosim" ELSE last_bg.sim_type

\* C1: once a handler has returned, the displayed foreground (fg_hex, and the
\* fg option of both Entry widgets) is the colour of the foreground's base RGB
\* under the current sim_type, which is the type the displayed background was
\* computed under; it is never left rendered under an earlier type.
C1_FgUnderCurrentSimType ==
    fg_hex # "" =>
        /\ Len(fg_rgb) = 3
        /\ ColorOf(fg_hex) = SimRGB(fg_rgb, sim_type)
        /\ bg_info.fg = fg_hex
        /\ fg_info.fg = fg_hex
        /\ last_bg # NoEvent =>
              /\ sim_type = last_bg.sim_type
              /\ ColorOf(bg_info.bg) = SimRGB(last_bg.rgb, sim_type)

\* C1 witness: a foreground chosen by right-click was re-simulated by
\* sync_simtypes after a background click with another simulation type.
C1_Witness ==
    /\ last_fg # NoEvent
    /\ last.op = "simulate_color"
    /\ calls = << "simulate_color", "display_colors", "sync_simtypes", "simulate_color" >>
    /\ sim_type = "tritanopia"
    /\ fg_hex # HexOf(fg_rgb)
    /\ StrIn("tritanopia", fg_text)

\* C2: after a right-click on X, whatever background clicks follow, fg_color
\* and fg_rgb are still those of X and the displayed foreground is X's base
\* RGB simulated under the type of the last background click.
C2_ExplicitFgPreserved ==
    last_fg # NoEvent =>
        /\ fg_color = last_fg.color
        /\ fg_rgb = last_fg.rgb
        /\ fg_hex = HexOf(SimRGB(last_fg.rgb, ModeShown))

\* C2 witness: right-click red, then background clicks, the last one on blue
\* with deuteranopia: the foreground is still red, shown as #545400.
C2_Witness ==
    /\ last_fg # NoEvent
    /\ last_fg.color = "red"
    /\ last.op = "simulate_color"
    /\ last.color = "blue"
    /\ last.sim_type = "deuteranopia"
    /\ fg_color = "red"
    /\ fg_rgb = <<255, 0, 0>>
    /\ fg_hex = "#545400"

\* C3: while no foreground was chosen by right-click, after every background
\* click the displayed foreground is the black/white contrast choice of that
\* click's simulated background.
C3_DefaultFgRecomputed ==
    (last_fg = NoEvent /\ last_bg # NoEvent) =>
        ColorOf(fg_hex) = ColorOf(black_or_white(SimRGB(last_bg.rgb, last_bg.sim_type)))

\* C4: a right-click (foregrnd_info, its inner simulate_color included) leaves
\* sim_type as it was.
C4_RightClickKeepsSimType ==
    [][last'.op = "foregrnd_info" => sim_type' = sim_type]_vars

\* C4 witness: a right-click under a simulation type ran the inner
\* simulate_color(..., fg_do='yes').
C4_Witness ==
    /\ last.op = "foregrnd_info"
    /\ calls = << "foregrnd_info", "simulate_color" >>
    /\ sim_type = "grayscale"

\* C5: a right-click on colour C stores C as the foreground (fg_color, fg_rgb)
\* and shows C's base RGB simulated under the sim_type in force, that of the
\* last background click; the caller supplies no type.
C5_RightClickStoresAndRenders ==
    last.op = "foregrnd_info" =>
        /\ fg_color = last.color
        /\ fg_rgb = last.rgb
        /\ sim_type = ModeShown
        /\ fg_hex = HexOf(SimRGB(last.rgb, ModeShown))
        /\ bg_info.fg = fg_hex
        /\ fg_info.fg = fg_hex

\* C5 witness: a right-click on red while protanopia is shown.
C5_Witness ==
    /\ last.op = "foregrnd_info"
    /\ last.color = "red"
    /\ sim_type = "protanopia"
    /\ fg_hex = HexOf(SimProtanopia(<<255, 0, 0>>))
    /\ fg_hex # "#ff0000"

\* C6: a background click on colour C with type m sets sim_type to m and shows
\* the background simulate(C's base RGB, m); the background text and colour
\* shown are those of the last background click, right-clicks notwithstanding.
C6_BgClickSetsModeAndBg ==
    last_bg # NoEvent =>
        LET hex == HexOf(SimRGB(last_bg.rgb, last_bg.sim_type))
        IN  /\ sim_type = last_bg.sim_type
            /\ bg_info.bg = hex
            /\ fg_info.bg = hex
            /\ StrIn("'" \o last_bg.color \o "'", bg_text)
            /\ StrIn("bg='" \o hex \o "'", bg_text)
            /\ StrIn("sees", bg_text) <=> (last_bg.sim_type # "nosim")
            /\ last_bg.sim_type # "nosim" => StrIn(last_bg.sim_type, bg_text)

\* C6 witness: blue was clicked with deuteranopia and a right-click followed.
C6_Witness ==
    /\ last_bg # NoEvent
    /\ last_bg.color = "blue"
    /\ last_bg.sim_type = "deuteranopia"
    /\ last.op = "foregrnd_info"
    /\ bg_info.bg = HexOf(SimDeuteranopia(<<0, 0, 255>>))

\* C7: simulating with 'nosim' returns the RGB triple unchanged.
C7_NosimIdentity ==
    (fn_out # << >> /\ fn_in[3] = "nosim") =>
        /\ fn_out[2] = fn_in[2]
        /\ ColorOf(fn_out[1]) = fn_in[2]

\* C7 witness: a 'nosim' call on a triple of three different channels returned.
C7_Witness ==
    /\ fn_out # << >>
    /\ fn_in[3] = "nosim"
    /\ fn_in[2] = <<14, 76, 255>>

\* C8: for every RGB with channels in 0..255 and each of the five types, every
\* channel of the simulated RGB is an integer in 0..255.
C8_RangeClosure ==
    fn_out # << >> =>
        /\ Len(fn_out[2]) = 3
        /\ \A i \in 1..3 : fn_out[2][i] \in 0..255

\* C8 witness: a call where a matrix row left the range and was clamped
\* (red under deuteranopia: the blue row gives -7), and a grayscale call that
\* reached 255.
C8_Witness ==
    /\ fn_out # << >>
    /\ \/ /\ fn_in[3] = "deuteranopia"
          /\ RoundDot(DeutB, fn_in[2], 10000) = -7
          /\ fn_out[2][3] = 0
       \/ /\ fn_in[3] = "tritanopia"
          /\ RoundDot(TritR, fn_in[2], 1000) > 255
          /\ fn_out[2][1] = 255

\* The row product c . x minus v times the scale E * 10^4, exactly.
RowError(c, x, v, E) ==
    10000 * ((c[1] \div 10000) * x[1] + (c[2] \div 10000) * x[2]
             + (c[3] \div 10000) * x[3] - v * E)
    + (c[1] % 10000) * x[1] + (c[2] % 10000) * x[2] + (c[3] % 10000) * x[3]

\* v = max(0, min(255, round(c . x))): inside the range v is the integer
\* nearest to the product, at an end of the range the product is at or
\* beyond it.
IsClampedRound(c, x, v, E) ==
    /\ v \in 0..255
    /\ v > 0 => RowError(c, x, v, E) >= -(E * 5000)
    /\ v < 255 => RowError(c, x, v, E) <= E * 5000

\* C9: for deuteranopia, protanopia and tritanopia each output channel is
\* max(0, min(255, round(row . (R,G,B)))) with the rows of the T matrices,
\* rounded first and clamped after, channel by channel; (255,0,0) under
\* deuteranopia gives (84,84,0), hex #545400.
C9_MatrixRoundClamp ==
    fn_out # << >> =>
        /\ fn_in[3] = "deuteranopia" =>
              /\ IsClampedRound(DeutR, fn_in[2], fn_out[2][1], 10000)
              /\ IsClampedRound(DeutG, fn_in[2], fn_out[2][2], 10000)
              /\ IsClampedRound(DeutB, fn_in[2], fn_out[2][3], 10000)
        /\ fn_in[3] = "protanopia" =>
              /\ IsClampedRound(ProtR, fn_in[2], fn_out[2][1], 100000)
              /\ IsClampedRound(ProtG, fn_in[2], fn_out[2][2], 100000)
              /\ IsClampedRound(ProtB, fn_in[2], fn_out[2][3], 100000)
        /\ fn_in[3] = "tritanopia" =>
              /\ IsClampedRound(TritR, fn_in[2], fn_out[2][1], 1000)
              /\ IsClampedRound(TritG, fn_in[2], fn_out[2][2], 1000)
              /\ IsClampedRound(TritB, fn_in[2], fn_out[2][3], 1000)
        /\ (fn_in[3] = "deuteranopia" /\ fn_in[2] = <<255, 0, 0>>) =>
              fn_out = << "#545400", <<84, 84, 0>> >>

\* C9 witness: (255,0,0) under deuteranopia returned (84,84,0), #545400.
C9_Witness ==
    /\ fn_in[3] = "deuteranopia"
    /\ fn_in[2] = <<255, 0, 0>>
    /\ fn_out = << "#545400", <<84, 84, 0>> >>

C11_GrayscaleIdempotent ==
    (fn_again # << >> /\ fn_in[3] = "grayscale") => fn_again = fn_out

\* C11 witness: a triple of three different channels, which the first pass
\* changed, went through grayscale twice.
C11_Witness ==
    /\ fn_in[3] = "grayscale"
    /\ fn_in[2] = <<14, 76, 255>>
    /\ fn_out # << >>
    /\ fn_out[2] # fn_in[2]
    /\ fn_again # << >>

\* C12: black_or_white returns 'black' exactly when
\* 241*R^2 + 691*G^2 + 68*B^2 > 19044000 (perceived brightness above 138) and
\* 'white' otherwise: (255,255,255) gives black, (0,0,0) gives white, and the
\* brightness 138 itself, (138,138,138), gives white.
C12_BlackOrWhiteCutoff ==
    bw_out # "" =>
        LET R == fn_in[2][1]
            G == fn_in[2][2]
            B == fn_in[2][3]
        IN  /\ bw_out \in {"black", "white"}
            /\ bw_out = "black" <=> 241 * R * R + 691 * G * G + 68 * B * B > 19044000
            /\ fn_in[2] = <<255, 255, 255>> => bw_out = "black"
            /\ fn_in[2] = <<0, 0, 0>> => bw_out = "white"
            /\ fn_in[2] = <<138, 138, 138>> => bw_out = "white"

\* C12 witness: black_or_white was called on the brightness-138 gray.
C12_Witness ==
    /\ fn_in[2] = <<138, 138, 138>>
    /\ bw_out = "white"

\* C13: the hex code of an RGB triple with channels in 0..255 is '#' and six
\* lowercase hex digits, two per channel in R,G,B order, from which the triple
\* is recovered (so different triples have different codes).
C13_HexCodeRecoverable ==
    fn_out # << >> =>
        /\ Len(fn_out[1]) = 7
        /\ SubSeq(fn_out[1], 1, 1) = "#"
        /\ \A i \in 2..7 : StrIn(SubSeq(fn_out[1], i, i), HexDigits)
        /\ \A i \in 1..3 :
              16 * HexVal(SubSeq(fn_out[1], 2 * i, 2 * i))
                + HexVal(SubSeq(fn_out[1], 2 * i + 1, 2 * i + 1)) = fn_out[2][i]

\* C13 witness: a triple with a channel below 16, a channel with a letter
\* digit and a channel of two letter digits was formatted.
C13_Witness ==
    /\ fn_in[3] = "nosim"
    /\ fn_in[2] = <<14, 76, 255>>
    /\ fn_out # << >>
    /\ fn_out[1] = "#0e4cff"

\* C14: no handler raises, for any sequence of background clicks and
\* right-clicks on palette colours: whenever sync_simtypes re-simulated the
\* foreground, fg_rgb was a triple of channels, never the ('None',) of
\* __init__, and the colours handed to configure() are colours Tk knows.
C14_HandlersTotal ==
    /\ exc = ""
    /\ Len(calls) = 4 =>
          /\ calls[3] = "sync_simtypes"
          /\ Len(fg_rgb) = 3
          /\ \A i \in 1..3 : fg_rgb[i] \in 0..255
    /\ last # NoEvent =>
          /\ ColorOf(bg_info.fg) # <<-1, -1, -1>>
          /\ ColorOf(fg_info.fg) # <<-1, -1, -1>>
    /\ last_bg # NoEvent =>
          /\ ColorOf(bg_info.bg) # <<-1, -1, -1>>
          /\ ColorOf(fg_info.bg) # <<-1, -1, -1>>

\* C14 witness: the very first event was a click with a simulation type, and
\* sync_simtypes re-simulated the white default it had just put in fg_rgb.
C14_Witness ==
    /\ last_fg = NoEvent
    /\ calls = << "simulate_color", "display_colors", "sync_simtypes", "simulate_color" >>
    /\ fg_color = "white"
    /\ fg_rgb = <<255, 255, 255>>
    /\ exc = ""

\* The name, simulation type label (unless 'nosim'), hex code and RGB triple
\* of a rendered colour all occur in a description text.
Describes(text, name, st, rgb) ==
    /\ StrIn(name, text)
    /\ st # "nosim" => StrIn(st, text)
    /\ StrIn(HexOf(rgb), text)
    /\ StrIn(TupleStr(rgb), text)

\* C15: after any background click, bg_text and fg_text each hold the colour
\* name, the simulation type label when it is not 'nosim', the hex code and
\* the RGB triple of the rendered background and foreground (the foreground's
\* name is fg_color, or the 'black'/'white' default held in fg_hex).
C15_TextsDescribeColors ==
    last_bg # NoEvent =>
        /\ Describes(bg_text, last_bg.color, sim_type, SimRGB(last_bg.rgb, sim_type))
        /\ Describes(fg_text, IF fg_color # "" THEN fg_color ELSE fg_hex,
                     sim_type, ColorOf(fg_hex))

\* The chains of method calls one event can make, in call order.
CallChains ==
    { << "simulate_color", "display_colors", "sync_simtypes" >>,
      << "simulate_color", "display_colors", "sync_simtypes", "simulate_color" >>,
      << "foregrnd_info" >>,
      << "foregrnd_info", "simulate_color" >> }

\* How often method m was entered during the last event.
Entered(m) == Cardinality({ i \in 1..Len(calls) : calls[i] = m })

\* C17: every background click and every right-click returns after one of
\* four finite call chains; display_colors and sync_simtypes are entered at
\* most once per event and simulate_color at most twice, the second time only
\* from sync_simtypes as the last call of the chain.
C17_ClickCompletes ==
    last # NoEvent =>
        /\ calls \in CallChains
        /\ Entered("display_colors") <= 1
        /\ Entered("sync_simtypes") <= 1
        /\ Entered("simulate_color") <= 2
        /\ last.op = "simulate_color" => calls[1] = "simulate_color"
        /\ last.op = "foregrnd_info" => calls[1] = "foregrnd_info"

\* A background click whose chain ran simulate_color twice and returned.
C17_Witness ==
    /\ last # NoEvent
    /\ last.op = "simulate_color"
    /\ Len(calls) = 4
    /\ calls[4] = "simulate_color"
    /\ Entered("simulate_color") = 2
    /\ exc = ""

\* C16: for every 16-bit channel value x that winfo_rgb returns, the channel
\* x >> 8 that make_colortable binds to the handlers equals x // 256 and lies
\* in 0..255.
C16_ChannelInRange ==
    rgb_ch # -1 =>
        /\ winfo_ch \in 0..65535
        /\ rgb_ch = winfo_ch \div 256
        /\ rgb_ch \in 0..255

\* The channel 0x80ff, whose low byte is all ones, became 128.
C16_Witness ==
    /\ winfo_ch = 33023
    /\ rgb_ch = 128

\* C18: once a double-click on a cell is over (the <Double-1> event has come
\* after the first press, and no timer is pending), the cell's foreground is
\* the other of label_fg1 and label_fg2 than at the first press, and its
\* background is the one it had at the first press.
C18_DoubleClickNotSingle ==
    (gesture.phase = "double" /\ timers = << >>) =>
        /\ cells[gesture.cell].fg = IF gesture.fg = label_fg1 THEN label_fg2 ELSE label_fg1
        /\ cells[gesture.cell].bg = gesture.bg

\* A step in which the timer of a single click ran that no <Double-1> event
\* followed while it was pending.
SingleClickCompletes ==
    /\ n_fired' = n_fired + 1
    /\ tlast'.op = "click_control"
    /\ ~tlast'.dbl

\* C19: every callback that single_click schedules runs, and runs once (it is
\* pending or has run, and the k-th scheduled one eventually has run); when no
\* <Double-1> event followed the click, click_control changes only the cell's
\* background, to label_bg2 if it was label_bg1 and to label_bg1 otherwise, so
\* n >= 1 completed single clicks on an uncoloured cell (and no other click
\* on it since) leave it label_bg1 for odd n and label_bg2 for even n.
C19_SingleClickColours ==
    /\ [](n_fired + Len(timers) = n_sched)
    /\ \A k \in 1..MaxClicks : (n_sched >= k) ~> (n_fired >= k)
    /\ [][SingleClickCompletes =>
            LET c == tlast'.cell
            IN  /\ timers # << >> /\ Head(timers).cell = c
                /\ cells'[c].bg = IF cells[c].bg = label_bg1 THEN label_bg2 ELSE label_bg1
                /\ cells'[c].fg = cells[c].fg
                /\ \A d \in Cells \ {c} : cells'[d] = cells[d]
                /\ double_click_flag' = double_click_flag]_vars
    /\ [](\A c \in Cells :
            n_done[c] >= 1 =>
                cells[c].bg = IF n_done[c] % 2 = 1 THEN label_bg1 ELSE label_bg2)

\* Two single clicks on cell 1 have completed and left it label_bg2.
C19_Witness ==
    /\ n_done[1] = 2
    /\ n_fired = 2
    /\ timers = << >>
    /\ cells[1].bg = label_bg2

\* C20: shift_click changes the cell's foreground to the other of label_fg1
\* and label_fg2 and changes nothing else (not the cell's background, no
\* other cell, not double_click_flag, no pending timer); the second of two
\* consecutive shift-clicks on a cell restores the foreground it had before
\* the first.
C20_ShiftClickToggles ==
    [][tlast'.op = "shift_click" =>
         LET c == tlast'.cell
         IN  /\ cells[c].fg \in {label_fg1, label_fg2}
             /\ cells'[c].fg \in {label_fg1, label_fg2} \ {cells[c].fg}
             /\ tlast'.twice => cells'[c].fg = tlast.fg
             /\ cells'[c].bg = cells[c].bg
             /\ \A d \in Cells \ {c} : cells'[d] = cells[d]
             /\ double_click_flag' = double_click_flag
             /\ timers' = timers]_vars

\* The second of two consecutive shift-clicks on a coloured cell, with the
\* flag set and a timer pending, has restored label_fg1.
C20_Witness ==
    /\ tlast.op = "shift_click"
    /\ tlast.twice
    /\ cells[tlast.cell] = [bg |-> label_bg1, fg |-> label_fg1]
    /\ double_click_flag
    /\ timers # << >>

\* C21: when decolor returns, the cell's background is neither label_bg1 nor
\* label_bg2: a coloured cell has become default_bg and a cell that was not
\* coloured keeps its background; the cell's foreground, every other cell,
\* double_click_flag and the pending timers are as before.
C21_DecolorRemovesColour ==
    [][tlast'.op = "decolor" =>
         LET c == tlast'.cell
         IN  /\ cells'[c].bg \notin {label_bg1, label_bg2}
             /\ cells[c].bg \in {label_bg1, label_bg2} => cells'[c].bg = default_bg
             /\ cells[c].bg \notin {label_bg1, label_bg2} => cells'[c].bg = cells[c].bg
             /\ cells'[c].fg = cells[c].fg
             /\ \A d \in Cells \ {c} : cells'[d] = cells[d]
             /\ double_click_flag' = double_click_flag
             /\ timers' = timers]_vars

\* A right-click has just taken the colour from the cell under the pointer
\* (a cell under the pointer is default_bg only after decolor), while the
\* other cell is still coloured.
C21_Witness ==
    /\ tlast.op = "decolor"
    /\ hover = tlast.cell
    /\ cells[tlast.cell].bg = default_bg
    /\ \E d \in Cells \ {tlast.cell} : cells[d].bg = label_bg2

\* C22: on_enter leaves a label_bg1 or label_bg2 cell as it is and gives any
\* other cell the background frame_bg; on_leave turns frame_bg into default_bg
\* and leaves any other cell as it is; neither changes a foreground or
\* another cell; and a cell that is not under the pointer never has the
\* background frame_bg, whatever timers and right-clicks come in between.
C22_MouseOverNeverSticks ==
    /\ [][tlast'.op = "on_enter" =>
            LET c == tlast'.cell
            IN  /\ cells'[c].bg = IF cells[c].bg \in {label_bg1, label_bg2}
                                  THEN cells[c].bg ELSE frame_bg
                /\ cells'[c].fg = cells[c].fg
                /\ \A d \in Cells \ {c} : cells'[d] = cells[d]]_vars
    /\ [][tlast'.op = "on_leave" =>
            LET c == tlast'.cell
            IN  /\ cells'[c].bg = IF cells[c].bg = frame_bg
                                  THEN default_bg ELSE cells[c].bg
                /\ cells'[c].fg = cells[c].fg
                /\ \A d \in Cells \ {c} : cells'[d] = cells[d]]_vars
    /\ [](\A c \in Cells : hover # c => cells[c].bg # frame_bg)

\* The pointer has left a mouse-over cell, whose click timer then ran and
\* coloured it, while the other cell keeps the colour it was entered and left
\* with.
C22_Witness ==
    /\ hover = 0
    /\ tlast.op = "click_control"
    /\ cells[tlast.cell].bg = label_bg1
    /\ n_done[tlast.cell] = 1
    /\ \E d \in Cells \ {tlast.cell} : cells[d].bg = label_bg2

\* C23: the i-th Label gridded (counting from 0) is at column i div 40 and
\* row 2 + (i mod 40), which is never row 0 or 1 nor a row >= MAX_ROWS; no
\* two Labels are at one grid cell; and when all 760 are placed, info_width
\* is 19, the number of columns used.
C23_LayoutFillsTable ==
    /\ \A k \in 1..Len(placed) :
          /\ placed[k].col = (k - 1) \div 40
          /\ placed[k].row = 2 + ((k - 1) % 40)
          /\ placed[k].row \in 2..(MAX_ROWS - 1)
    /\ \A k \in 1..(Len(placed) - 1) : placed[k] # placed[Len(placed)]
    /\ info_width # -1 =>
          /\ Len(placed) = 760
          /\ info_width = 19
          /\ info_width = Cardinality({ placed[k].col : k \in 1..Len(placed) })

\* The loop has ended: the last Label is at the bottom of the last column.
C23_Witness ==
    /\ info_width = 19
    /\ Len(placed) = 760
    /\ placed[760] = [row |-> 41, col |-> 18]

IsHexCode(str) ==
    /\ Len(str) = 7
    /\ SubSeq(str, 1, 1) = "#"
    /\ \A i \in 2..7 : StrIn(SubSeq(str, i, i), HexDigits)

C26_NosimClicksOnly ==
    [][(/\ fg_hex \in {"", "black", "white"}
        /\ last'.op = "simulate_color"
        /\ last'.sim_type = "nosim") =>
           /\ last_fg = NoEvent
           /\ fg_text = FgStartText
           /\ fg_hex' = black_or_white(last'.rgb)
           /\ bg_info'.fg = fg_hex'
           /\ fg_info'.fg = fg_hex'
           /\ fg_text' = FgStartText
           /\ calls' = << "simulate_color", "display_colors", "sync_simtypes" >>
           /\ exc' = ""]_vars

\* After plain clicks only, the last one on 'blue': white on blue, and the
\* start-up text still in fg_text.
C26_Witness ==
    /\ last_fg = NoEvent
    /\ last.op = "simulate_color"
    /\ last.sim_type = "nosim"
    /\ last.color = "blue"
    /\ fg_hex = "white"
    /\ fg_text = FgStartText
    /\ bg_text # BgStartText
    /\ calls = << "simulate_color", "display_colors", "sync_simtypes" >>

====
